---- MODULE Spec2Model ----
(***************************************************************************)
(* Model of src/ovani/download_bundles.py: the sequential batch downloader *)
(* (download_all_files, lines 145-185), the retrying transfer              *)
(* (download_file, lines 23-90) and the failure log (log_failed_download,  *)
(* lines 15-21), over an explicit filesystem.                              *)
(*                                                                         *)
(* A file is a record [src, len, total]: src is the task whose attempt     *)
(* wrote it (0: it was there before the run), total the number of chunks   *)
(* of the body that was being streamed into it and len the number of       *)
(* chunks written so far.  mtimeOrder lists the existing paths from the    *)
(* least to the most recently modified one.                                *)
(***************************************************************************)
EXTENDS Integers, Sequences, FiniteSets, TLC

VARIABLES
    downloads,        \* the input list: filenames, task k has url k
    max_retries,      \* download_file's parameter (line 28)
    fs,               \* path -> file
    mtimeOrder,       \* existing paths, least recently modified first
    pc,               \* position of the single thread of control
    i,                \* download_all_files: index of the current task
    successful,       \* download_all_files: counter (line 151)
    attempt,          \* download_file: loop variable (line 45)
    last_error,       \* download_file: line 43
    response,         \* the response of the attempt in flight
    log,              \* failed_downloads.log: the appended entries
    exit_code,        \* process exit status, -1 while running
    result,           \* download_all_files' return value, "none" until it returns
    outcome,          \* observed: task -> pending/skipped/succeeded/failed
    requests,         \* observed: task -> number of session.get calls
    staged,           \* observed: task -> whether it ever opened its staging file
    waits,            \* observed: the sleeps of the current download_file call
    kinds,            \* observed: the failure kinds of the current call
    destBefore,       \* observed: the destination file when the attempt started
    existedBefore,    \* observed: the paths that existed when the run started
    run,              \* number of the run over the same destination root
    firstOutcome,     \* observed: the outcomes of the previous run
    failed_downloads, \* download_all_files: the list of line 147
    report,           \* the summary download_all_files printed, NoReport if none
    caught,           \* the exception the handler of line 183 caught, "none" if none
    par,              \* the state of the parallel download_all_files (line 92)
    ex,               \* the state of extract_bundle.main
    sync              \* the state of multiplayer_sync

vars == <<downloads, max_retries, fs, mtimeOrder, pc, i, successful, attempt,
          last_error, response, log, exit_code, result, outcome, requests,
          staged, waits, kinds, destBefore, existedBefore, run, firstOutcome,
          failed_downloads, report, caught, par, ex, sync>>

\* what the sequential downloader never touches
others == <<par, ex, sync>>

\* the state of the sequential downloader
sequential == <<downloads, max_retries, fs, mtimeOrder, pc, i, successful, attempt,
                last_error, response, log, exit_code, result, outcome, requests,
                staged, waits, kinds, destBefore, existedBefore, run,
                firstOutcome, failed_downloads, report, caught>>

----------------------------------------------------------------------------
(* Bounds of the model *)

\* longest input list (the filenames of a list are pairwise different, so
\* Names bounds it as well)
MaxTasks == 3
\* longest response body, in chunks of 8192 bytes
MaxChunks == 2
\* largest max_retries a direct caller of download_file passes
MaxRetriesArg == 3
\* runs over the same destination root
MaxRuns == 2
\* longest input list of a batch that is run again
MaxTasksTwice == 2
\* longest input list of a batch run with faults
MaxTasksFaults == 2
\* longest url list of the parallel downloader
MaxUrls == 3
\* most ZIP files in the folder given to extract_bundle
MaxZips == 3
\* latest modification time of a file before multiplayer_sync runs
MaxMtime == 2
\* largest file size in the two folders
MaxSize == 2

(* Program constants *)

\* max_retries: int = 2
DefaultMaxRetries == 2
\* asyncio.sleep(1 * attempt)
BackoffBase == 1
\* max_concurrent: int = 2
DefaultMaxConcurrent == 2

\* The filenames the link extractor may hand over.  "a.tmp" is the name
\* download_file derives for the staging file of "a".
Names == {"a", "a.tmp", "b"}

\* temp_path = dest_path.with_suffix(dest_path.suffix + '.tmp')
TempPath(dest_path) == dest_path \o ".tmp"

Paths == Names \cup {TempPath(n) : n \in Names}

NoFile == [src |-> -1, len |-> 0, total |-> 0]
\* a complete file left by an earlier run
OldFile == [src |-> 0, len |-> 1, total |-> 1]

NoResponse == [status |-> 0, content_length |-> -1, body |-> 0]

NoReport == [successful |-> -1, failed |-> <<>>, total |-> -1]

\* the parallel downloader and the extractor are not running
NoPar == [pc |-> <<>>, attempt |-> <<>>, last_error |-> <<>>, requests |-> <<>>,
          outcome |-> <<>>, limit |-> 0, permits |-> 0, result |-> "none",
          exit_code |-> -1]

NoEx == [zips |-> <<>>, pc |-> "off", idx |-> 0, success_count |-> 0,
         failed_files |-> <<>>, ret |-> -1]

\* multiplayer_sync is not running
NoSync == [pc |-> "off", dict_a |-> <<>>, dict_b |-> <<>>, work |-> <<>>,
           copy |-> <<>>, todo |-> {}, files_copied |-> <<>>, warned |-> {},
           exit_code |-> -1]

\* Path.exists()
Exists(p) == fs[p] # NoFile

Complete(f) == f.len = f.total

----------------------------------------------------------------------------
(* Filesystem helpers: modification order *)

Remove(s, p) == SelectSeq(s, LAMBDA x : x # p)

\* a write to p makes it the most recently modified path
Touch(s, p) == Append(Remove(s, p), p)

\* rename keeps the modification time of the renamed file
Renamed(s, from, to) ==
    LET r == Remove(s, to)
    IN  [k \in 1..Len(r) |-> IF r[k] = from THEN to ELSE r[k]]

\* the handler forgets the staging file
NotCleanedFs(temp) == fs

\* temp_path.unlink() when temp_path.exists() (lines 76-77); the unlink of
\* the handler itself is taken to succeed
CleanedFs(temp) == [fs EXCEPT ![temp] = NoFile]

----------------------------------------------------------------------------
(* download_file *)

\* one iteration too many
RetryBudgetOffByOne(retries) == retries + 2

\* range(max_retries + 1): the number of iterations of the attempt loop
RetryBudget(retries) == retries + 1

\* the doubling schedule the comment of line 48 names
ExponentialDelay(n) == BackoffBase * 2 ^ (n - 1)

\* asyncio.sleep(1 * attempt)
BackoffDelay(n) == BackoffBase * n

Dest == downloads[i]

\* except Exception as e: last_error = str(e); the loop goes on (lines 81-82)
AttemptFailed(kind) ==
    /\ last_error' = kind
    /\ kinds' = kinds \cup {kind}
    /\ attempt' = attempt + 1
    /\ response' = NoResponse
    /\ pc' = "for_attempt"

\* top of the attempt loop, with the sleep before a retry (lines 45-48)
ForAttempt ==
    /\ pc = "for_attempt"
    /\ attempt < RetryBudget(max_retries)
    /\ waits' = IF attempt > 0 THEN Append(waits, BackoffDelay(attempt)) ELSE waits
    /\ destBefore' = fs[Dest]
    /\ pc' = "get"
    /\ UNCHANGED <<downloads, max_retries, fs, mtimeOrder, i, successful, attempt,
                   last_error, response, log, exit_code, result, outcome, requests,
                   staged, kinds, existedBefore, run, firstOutcome,
                   failed_downloads, report, caught, others>>

\* session.get raises: connection error or the 300 s timeout (lines 51, 81-82)
GetRaises ==
    /\ pc = "get"
    /\ requests' = [requests EXCEPT ![i] = @ + 1]
    /\ AttemptFailed("network")
    /\ UNCHANGED <<downloads, max_retries, fs, mtimeOrder, i, successful, log,
                   exit_code, result, outcome, staged, waits, destBefore,
                   existedBefore, run, firstOutcome,
                   failed_downloads, report, caught, others>>

\* a response whose status is not 200 (lines 51-52, 79-80)
GetNot200 ==
    /\ pc = "get"
    /\ requests' = [requests EXCEPT ![i] = @ + 1]
    /\ AttemptFailed("http")
    /\ UNCHANGED <<downloads, max_retries, fs, mtimeOrder, i, successful, log,
                   exit_code, result, outcome, staged, waits, destBefore,
                   existedBefore, run, firstOutcome,
                   failed_downloads, report, caught, others>>

\* the content-length headers a response with this body may carry: none (-1),
\* the length of the body, or another number (the header counts the bytes on
\* the wire, the stream delivers the decoded body)
ContentLengths(body) == {-1, body, (body + 1) % (MaxChunks + 1)}

\* a 200 response: total_size = int(content-length or 0) goes to the progress
\* bar only; the body is what the stream will deliver.  The parent directory
\* is there or made (lines 51-60)
Get200 ==
    /\ pc = "get"
    /\ requests' = [requests EXCEPT ![i] = @ + 1]
    /\ \E body \in 0..MaxChunks :
          \E cl \in ContentLengths(body) :
             response' = [status |-> 200, content_length |-> cl, body |-> body]
    /\ pc' = "open"
    /\ UNCHANGED <<downloads, max_retries, fs, mtimeOrder, i, successful, attempt,
                   last_error, log, exit_code, result, outcome, staged, waits,
                   kinds, destBefore, existedBefore, run, firstOutcome,
                   failed_downloads, report, caught, others>>

\* a 200 response, and dest_path.parent.mkdir raises: no file is touched
\* (lines 51-54, 81-82)
MkdirRaises ==
    /\ pc = "get"
    /\ requests' = [requests EXCEPT ![i] = @ + 1]
    /\ AttemptFailed("filesystem")
    /\ UNCHANGED <<downloads, max_retries, fs, mtimeOrder, i, successful, log,
                   exit_code, result, outcome, staged, waits, destBefore,
                   existedBefore, run, firstOutcome,
                   failed_downloads, report, caught, others>>

\* open(temp_path, 'wb') creates or truncates the staging file (line 63)
OpenTemp ==
    /\ pc = "open"
    /\ fs' = [fs EXCEPT ![TempPath(Dest)] =
                 [src |-> i, len |-> 0, total |-> response.body]]
    /\ mtimeOrder' = Touch(mtimeOrder, TempPath(Dest))
    /\ staged' = [staged EXCEPT ![i] = TRUE]
    /\ pc' = "streaming"
    /\ UNCHANGED <<downloads, max_retries, i, successful, attempt, last_error,
                   response, log, exit_code, result, outcome, requests, waits,
                   kinds, destBefore, existedBefore, run, firstOutcome,
                   failed_downloads, report, caught, others>>

\* open(temp_path, 'wb') raises; the handler unlinks temp_path if a file is
\* there (lines 63, 74-78, 81-82)
OpenRaises ==
    /\ pc = "open"
    /\ fs' = CleanedFs(TempPath(Dest))
    /\ mtimeOrder' = Remove(mtimeOrder, TempPath(Dest))
    /\ AttemptFailed("filesystem")
    /\ UNCHANGED <<downloads, max_retries, i, successful, log, exit_code, result,
                   outcome, requests, staged, waits, destBefore, existedBefore,
                   run, firstOutcome,
                   failed_downloads, report, caught, others>>

\* f.write(chunk) for the next chunk of the body (lines 64-66)
WriteChunk ==
    /\ pc = "streaming"
    /\ fs[TempPath(Dest)].len < response.body
    /\ fs' = [fs EXCEPT ![TempPath(Dest)].len = @ + 1]
    /\ mtimeOrder' = Touch(mtimeOrder, TempPath(Dest))
    /\ UNCHANGED <<downloads, max_retries, pc, i, successful, attempt, last_error,
                   response, log, exit_code, result, outcome, requests, staged,
                   waits, kinds, destBefore, existedBefore, run, firstOutcome,
                   failed_downloads, report, caught, others>>

\* the stream or the write raises before the body is complete; the handler
\* unlinks the staging file (lines 64-65, 74-78, 81-82)
StreamRaises ==
    /\ pc = "streaming"
    /\ fs[TempPath(Dest)].len < response.body
    /\ fs' = CleanedFs(TempPath(Dest))
    /\ mtimeOrder' = Remove(mtimeOrder, TempPath(Dest))
    /\ \E kind \in {"network", "filesystem"} : AttemptFailed(kind)
    /\ UNCHANGED <<downloads, max_retries, i, successful, log, exit_code, result,
                   outcome, requests, staged, waits, destBefore, existedBefore,
                   run, firstOutcome,
                   failed_downloads, report, caught, others>>

\* the file after dest_path.unlink() and temp_path.rename(dest_path)
CommittedFs(dest, temp) == [fs EXCEPT ![dest] = fs[temp], ![temp] = NoFile]

\* the file after dest_path.unlink() succeeded, temp_path.rename raised and
\* the handler unlinked temp_path (lines 71-72, 76-77)
RenameFailedFs(dest, temp) == [fs EXCEPT ![dest] = NoFile, ![temp] = NoFile]

\* end of the stream: the file is closed, the old destination unlinked and
\* the staging file renamed onto it; unlink or rename may raise
\* (lines 67-73, 74-78, 81-82)
Commit ==
    /\ pc = "streaming"
    /\ fs[TempPath(Dest)].len = response.body
    /\ \E fault \in {"none", "unlink", "rename"} :
          IF ~Exists(TempPath(Dest))
          THEN \* line 69 is false: no return and no error, the loop goes on
               /\ attempt' = attempt + 1
               /\ response' = NoResponse
               /\ pc' = "for_attempt"
               /\ UNCHANGED <<fs, mtimeOrder, last_error, kinds>>
          ELSE IF fault = "unlink" /\ Exists(Dest)
          THEN /\ fs' = CleanedFs(TempPath(Dest))
               /\ mtimeOrder' = Remove(mtimeOrder, TempPath(Dest))
               /\ AttemptFailed("filesystem")
          ELSE IF fault = "rename"
          THEN /\ fs' = RenameFailedFs(Dest, TempPath(Dest))
               /\ mtimeOrder' = Remove(Remove(mtimeOrder, Dest), TempPath(Dest))
               /\ AttemptFailed("filesystem")
          ELSE /\ fs' = CommittedFs(Dest, TempPath(Dest))
               /\ mtimeOrder' = Renamed(mtimeOrder, TempPath(Dest), Dest)
               /\ pc' = "ret_true"
               /\ UNCHANGED <<attempt, last_error, response, kinds>>
    /\ UNCHANGED <<downloads, max_retries, i, successful, log, exit_code, result,
                   outcome, requests, staged, waits, destBefore, existedBefore,
                   run, firstOutcome,
                   failed_downloads, report, caught, others>>

\* log_failed_download(url, filename, last_error) (lines 15-21); the append
\* to the log file is taken to succeed
log_failed_download(url, filename, error) ==
    Append(log, [url |-> url, filename |-> filename, error |-> error])

\* all attempts failed: the entry is logged (log_errors is True) and
\* sys.exit(1) ends the process; SystemExit is no Exception, so neither
\* line 183 nor main catches it (lines 84-89)
Exhausted ==
    /\ pc = "for_attempt"
    /\ attempt >= RetryBudget(max_retries)
    /\ log' = IF last_error # "None"
              THEN log_failed_download(i, Dest, last_error)
              ELSE log
    /\ outcome' = [outcome EXCEPT ![i] = "failed"]
    /\ exit_code' = 1
    /\ pc' = "exited"
    /\ UNCHANGED <<downloads, max_retries, fs, mtimeOrder, i, successful, attempt,
                   last_error, response, result, requests, staged, waits, kinds,
                   destBefore, existedBefore, run, firstOutcome,
                   failed_downloads, report, caught, others>>

----------------------------------------------------------------------------
(* Faults of the surroundings of download_file *)

\* all attempts failed and the append to the log file raises (OSError): the
\* exception leaves download_file before lines 87-89, the handler of line
\* 183 prints it and returns False, main ignores the value and the process
\* ends normally (lines 84-86, 15-21, 183-185, 210)
LogWriteRaises ==
    /\ pc = "for_attempt"
    /\ attempt >= RetryBudget(max_retries)
    /\ last_error # "None"
    /\ outcome' = [outcome EXCEPT ![i] = "failed"]
    /\ caught' = "log"
    /\ result' = "False"
    /\ exit_code' = 0
    /\ pc' = "returned"
    /\ UNCHANGED <<downloads, max_retries, fs, mtimeOrder, i, successful, attempt,
                   last_error, response, log, requests, staged, waits, kinds,
                   destBefore, existedBefore, run, firstOutcome,
                   failed_downloads, report, others>>

\* SIGINT: asyncio.run cancels the task, CancelledError is raised at the
\* await the task is suspended in (the sleep of line 48, session.get of line
\* 51, the chunk iterator of line 64).  It is no Exception: the handlers of
\* lines 74, 81 and 183 do not run, the with statement closes the staging
\* file, asyncio.run raises KeyboardInterrupt and main exits with 1
\* (lines 209-213)
Interrupt ==
    /\ \/ pc = "for_attempt" /\ 0 < attempt /\ attempt < RetryBudget(max_retries)
       \/ pc = "get"
       \/ pc = "streaming"
    /\ exit_code' = 1
    /\ pc' = "interrupted"
    /\ UNCHANGED <<downloads, max_retries, fs, mtimeOrder, i, successful, attempt,
                   last_error, response, log, result, outcome, requests, staged,
                   waits, kinds, destBefore, existedBefore, run, firstOutcome,
                   failed_downloads, report, caught, others>>

\* progress_bar.reset or set_description raises: the lines are outside the
\* inner try, the exception is caught at line 81 and the attempt has failed
\* before the staging file is opened (lines 59-60, 81-82)
ProgressResetRaises ==
    /\ pc = "open"
    /\ AttemptFailed("progress")
    /\ UNCHANGED <<downloads, max_retries, fs, mtimeOrder, i, successful, log,
                   exit_code, result, outcome, requests, staged, waits,
                   destBefore, existedBefore, run, firstOutcome,
                   failed_downloads, report, caught, others>>

\* progress_bar.update raises after a chunk was written: the handler unlinks
\* the staging file and the attempt has failed (lines 66, 74-78, 81-82)
ProgressUpdateRaises ==
    /\ pc = "streaming"
    /\ fs[TempPath(Dest)].len > 0
    /\ fs' = CleanedFs(TempPath(Dest))
    /\ mtimeOrder' = Remove(mtimeOrder, TempPath(Dest))
    /\ AttemptFailed("progress")
    /\ UNCHANGED <<downloads, max_retries, i, successful, log, exit_code, result,
                   outcome, requests, staged, waits, destBefore, existedBefore,
                   run, firstOutcome, failed_downloads, report, caught, others>>

----------------------------------------------------------------------------
(* download_all_files (the definition at line 145, which replaces the one   *)
(* at line 92)                                                              *)

\* the existence check is missing: the task is downloaded again
SkipMissing ==
    /\ pc = "loop"
    /\ i <= Len(downloads)
    /\ Exists(downloads[i])
    /\ attempt' = 0
    /\ last_error' = "None"
    /\ waits' = <<>>
    /\ kinds' = {}
    /\ pc' = "for_attempt"
    /\ UNCHANGED <<downloads, max_retries, fs, mtimeOrder, i, successful, response,
                   log, exit_code, result, outcome, requests, staged, destBefore,
                   existedBefore, run, firstOutcome,
                   failed_downloads, report, caught, others>>

\* the skipped task is not counted
SkipNotCounted ==
    /\ pc = "loop"
    /\ i <= Len(downloads)
    /\ Exists(downloads[i])
    /\ outcome' = [outcome EXCEPT ![i] = "skipped"]
    /\ i' = i + 1
    /\ UNCHANGED <<downloads, max_retries, fs, mtimeOrder, pc, successful, attempt,
                   last_error, response, log, exit_code, result, requests, staged,
                   waits, kinds, destBefore, existedBefore, run, firstOutcome,
                   failed_downloads, report, caught, others>>

\* the destination exists: the task is counted and skipped (lines 154-159)
Skip ==
    /\ pc = "loop"
    /\ i <= Len(downloads)
    /\ Exists(Dest)
    /\ successful' = successful + 1
    /\ outcome' = [outcome EXCEPT ![i] = "skipped"]
    /\ i' = i + 1
    /\ UNCHANGED <<downloads, max_retries, fs, mtimeOrder, pc, attempt, last_error,
                   response, log, exit_code, result, requests, staged, waits,
                   kinds, destBefore, existedBefore, run, firstOutcome,
                   failed_downloads, report, caught, others>>

\* the destination does not exist: download_file is called
\* (lines 154-156, 161-162, 42-43)
StartDownload ==
    /\ pc = "loop"
    /\ i <= Len(downloads)
    /\ ~Exists(Dest)
    /\ attempt' = 0
    /\ last_error' = "None"
    /\ waits' = <<>>
    /\ kinds' = {}
    /\ pc' = "for_attempt"
    /\ UNCHANGED <<downloads, max_retries, fs, mtimeOrder, i, successful, response,
                   log, exit_code, result, outcome, requests, staged, destBefore,
                   existedBefore, run, firstOutcome,
                   failed_downloads, report, caught, others>>

\* download_file returned True (lines 162-164); it never returns False,
\* sys.exit(1) precedes line 90
DownloadResult ==
    /\ pc = "ret_true"
    /\ successful' = successful + 1
    /\ outcome' = [outcome EXCEPT ![i] = "succeeded"]
    /\ i' = i + 1
    /\ pc' = "loop"
    \* the locals of the finished call are gone
    /\ response' = NoResponse
    /\ attempt' = 0
    /\ last_error' = "None"
    /\ waits' = <<>>
    /\ kinds' = {}
    /\ destBefore' = NoFile
    /\ UNCHANGED <<downloads, max_retries, fs, mtimeOrder, log, exit_code, result,
                   requests, staged, existedBefore, run, firstOutcome,
                   failed_downloads, report, caught, others>>

\* the loop is over: the summary is printed and the comparison returned;
\* main ignores the value and the process ends normally (lines 168-182, 210)
Summary ==
    /\ pc = "loop"
    /\ i > Len(downloads)
    /\ result' = IF successful = Len(downloads) THEN "True" ELSE "False"
    /\ exit_code' = 0
    /\ report' = [successful |-> successful,
                   failed |-> failed_downloads,
                   total |-> Len(downloads)]
    /\ pc' = "returned"
    /\ UNCHANGED <<downloads, max_retries, fs, mtimeOrder, i, successful, attempt,
                   last_error, response, log, outcome, requests, staged, waits,
                   kinds, destBefore, existedBefore, run, firstOutcome,
                   failed_downloads, caught, others>>

\* the same batch is run again over the same destination root: a new
\* process, the filesystem and the log file stay
RunAgain ==
    /\ pc \in {"returned", "exited"}
    /\ run < MaxRuns
    /\ run' = run + 1
    /\ firstOutcome' = outcome
    /\ existedBefore' = {p \in Paths : Exists(p)}
    /\ pc' = "loop"
    /\ i' = 1
    /\ successful' = 0
    /\ attempt' = 0
    /\ last_error' = "None"
    /\ response' = NoResponse
    /\ exit_code' = -1
    /\ result' = "none"
    /\ outcome' = [k \in 1..Len(downloads) |-> "pending"]
    /\ requests' = [k \in 1..Len(downloads) |-> 0]
    /\ staged' = [k \in 1..Len(downloads) |-> FALSE]
    /\ waits' = <<>>
    /\ kinds' = {}
    /\ destBefore' = NoFile
    /\ failed_downloads' = <<>>
    /\ report' = NoReport
    /\ caught' = "none"
    /\ UNCHANGED <<downloads, max_retries, fs, mtimeOrder, log, others>>

----------------------------------------------------------------------------
(* Specifications *)

\* the lists of pairwise different filenames, 1 to MaxTasks long
TaskLists ==
    {s \in UNION {[1..n -> Names] : n \in 1..MaxTasks} :
        \A j, k \in DOMAIN s : j # k => s[j] # s[k]}

\* the state common to every start
Start(list, existing) ==
    /\ downloads = list
    /\ fs = [p \in Paths |-> IF p \in existing THEN OldFile ELSE NoFile]
    /\ mtimeOrder = SelectSeq(list, LAMBDA n : n \in existing)
    /\ existedBefore = existing
    /\ i = 1
    /\ successful = 0
    /\ attempt = 0
    /\ last_error = "None"
    /\ response = NoResponse
    /\ log = <<>>
    /\ exit_code = -1
    /\ result = "none"
    /\ outcome = [k \in 1..Len(list) |-> "pending"]
    /\ requests = [k \in 1..Len(list) |-> 0]
    /\ staged = [k \in 1..Len(list) |-> FALSE]
    /\ waits = <<>>
    /\ kinds = {}
    /\ destBefore = NoFile
    /\ run = 1
    /\ firstOutcome = [k \in 1..Len(list) |-> "pending"]
    /\ failed_downloads = <<>>
    /\ report = NoReport
    /\ caught = "none"

\* main calls download_all_files on a non-empty list; any subset of the
\* destinations is already there, left in list order by an earlier run
Init ==
    /\ \E list \in TaskLists, existing \in SUBSET Names :
          /\ existing \subseteq {list[k] : k \in 1..Len(list)}
          /\ Start(list, existing)
    /\ max_retries = DefaultMaxRetries
    /\ par = NoPar
    /\ ex = NoEx
    /\ sync = NoSync
    /\ pc = "loop"

DownloadFile ==
    \/ ForAttempt
    \/ GetRaises
    \/ GetNot200
    \/ Get200
    \/ MkdirRaises
    \/ OpenTemp
    \/ OpenRaises
    \/ WriteChunk
    \/ StreamRaises
    \/ Commit
    \/ Exhausted

Next ==
    \/ Skip
    \/ StartDownload
    \/ DownloadResult
    \/ Summary
    \/ DownloadFile

\* one run of the sequential batch
Spec == Init /\ [][Next]_vars

\* the same batch run MaxRuns times over the same destination root
NextTwice == Next \/ RunAgain

InitTwice ==
    /\ \E list \in TaskLists, existing \in SUBSET Names :
          /\ Len(list) <= MaxTasksTwice
          /\ existing \subseteq {list[k] : k \in 1..Len(list)}
          /\ Start(list, existing)
    /\ max_retries = DefaultMaxRetries
    /\ par = NoPar
    /\ ex = NoEx
    /\ sync = NoSync
    /\ pc = "loop"

SpecTwice == InitTwice /\ [][NextTwice]_vars

\* one run of the sequential batch in which the log file may be unwritable,
\* the progress bar may raise and the user may interrupt
InitFaults ==
    /\ \E list \in TaskLists, existing \in SUBSET Names :
          /\ Len(list) <= MaxTasksFaults
          /\ existing \subseteq {list[k] : k \in 1..Len(list)}
          /\ Start(list, existing)
    /\ max_retries = DefaultMaxRetries
    /\ par = NoPar
    /\ ex = NoEx
    /\ sync = NoSync
    /\ pc = "loop"

NextFaults ==
    \/ Next
    \/ LogWriteRaises
    \/ Interrupt
    \/ ProgressResetRaises
    \/ ProgressUpdateRaises

SpecFaults == InitFaults /\ [][NextFaults]_vars

----------------------------------------------------------------------------
(* download_all_files, the definition at line 92: one asyncio task per url.
   The later definition of line 145 replaces it in the module namespace, so
   main never calls it; it is modelled as a caller of line 92 would run it.
   The call of line 99 passes the semaphore as progress_bar and the dict
   progress_bars as log_errors; max_retries keeps its default. *)

ParTasks == DOMAIN par.pc

\* the tasks suspended in session.get (line 51)
ParInFlight == {k \in ParTasks : par.pc[k] = "get"}

ParRunning == par.exit_code = -1 /\ par.result = "none"

\* line 45-51: the next attempt of task k issues its request.  No permit of
\* the semaphore is acquired anywhere in download_file
ParForAttempt(k) ==
    /\ ParRunning
    /\ par.pc[k] = "for_attempt"
    /\ par.attempt[k] < RetryBudget(DefaultMaxRetries)
    /\ par' = [par EXCEPT !.pc[k] = "get",
                          !.requests[k] = @ + 1]
    /\ UNCHANGED <<sequential, ex, sync>>

\* the end of an attempt of task k with the error kind (lines 79-82)
ParAttemptFailed(k, kind) ==
    par' = [par EXCEPT !.pc[k] = "for_attempt",
                       !.attempt[k] = @ + 1,
                       !.last_error[k] = kind]

\* session.get raises (lines 51, 81-82)
ParGetRaises(k) ==
    /\ ParRunning
    /\ par.pc[k] = "get"
    /\ ParAttemptFailed(k, "network")
    /\ UNCHANGED <<sequential, ex, sync>>

\* a status other than 200 (lines 52, 79-80)
ParGetNot200(k) ==
    /\ ParRunning
    /\ par.pc[k] = "get"
    /\ ParAttemptFailed(k, "http")
    /\ UNCHANGED <<sequential, ex, sync>>

\* status 200: lines 53-57 run without an await and progress_bar.reset, called
\* on the asyncio.Semaphore, raises AttributeError before the staging file
\* is opened (lines 52-59, 81-82)
ParGet200(k) ==
    /\ ParRunning
    /\ par.pc[k] = "get"
    /\ ParAttemptFailed(k, "AttributeError")
    /\ UNCHANGED <<sequential, ex, sync>>

\* all attempts of task k failed: log_errors is the empty dict, nothing is
\* logged; sys.exit(1) raises SystemExit in the task, the event loop
\* re-raises it, asyncio.run cancels the tasks still pending and the process
\* ends with status 1 (lines 84-89)
ParExhausted(k) ==
    /\ ParRunning
    /\ par.pc[k] = "for_attempt"
    /\ par.attempt[k] >= RetryBudget(DefaultMaxRetries)
    /\ par' = [par EXCEPT
                 !.pc = [j \in ParTasks |-> IF j = k THEN "exited" ELSE "cancelled"],
                 !.outcome[k] = "failed",
                 !.exit_code = 1]
    /\ UNCHANGED <<sequential, ex, sync>>

\* gather returned (lines 104-109); with download_file never returning, that
\* is the case of an empty url list only
ParSummary ==
    /\ ParRunning
    /\ \A k \in ParTasks : par.pc[k] = "returned"
    /\ par' = [par EXCEPT !.result = "True"]
    /\ UNCHANGED <<sequential, ex, sync>>

\* the tasks are created at lines 95-101 and all start at line 104
InitParallel ==
    /\ Start(<<>>, {})
    /\ max_retries = DefaultMaxRetries
    /\ pc = "off"
    /\ ex = NoEx
    /\ sync = NoSync
    /\ \E n \in 0..MaxUrls :
          par = [pc |-> [k \in 1..n |-> "for_attempt"],
                 attempt |-> [k \in 1..n |-> 0],
                 last_error |-> [k \in 1..n |-> "None"],
                 requests |-> [k \in 1..n |-> 0],
                 outcome |-> [k \in 1..n |-> "pending"],
                 limit |-> DefaultMaxConcurrent,
                 permits |-> DefaultMaxConcurrent,
                 result |-> "none",
                 exit_code |-> -1]

NextParallel ==
    \/ \E k \in ParTasks : ParForAttempt(k)
    \/ \E k \in ParTasks : ParGetRaises(k)
    \/ \E k \in ParTasks : ParGetNot200(k)
    \/ \E k \in ParTasks : ParGet200(k)
    \/ \E k \in ParTasks : ParExhausted(k)
    \/ ParSummary

SpecParallel == InitParallel /\ [][NextParallel]_vars

----------------------------------------------------------------------------
(* extract_bundle.main: one pass over the ZIP files of a folder *)

\* what a ZIP file found by glob turns out to be: extractable; deleted before
\* it is processed; failing the integrity test of is_zip_valid; valid, with
\* a member whose extraction raises
ZipKinds == {"good", "missing", "corrupt", "broken"}

\* extract_wavs on a path: whether the value is a (success, message) pair and
\* its truth as success.  The invalid ZIP returns the bare False of line 127
extract_wavs(kind) ==
    CASE kind = "missing" -> [pair |-> TRUE, success |-> FALSE]
      [] kind = "corrupt" -> [pair |-> FALSE, success |-> FALSE]
      [] kind = "broken" -> [pair |-> TRUE, success |-> FALSE]
      [] OTHER -> [pair |-> TRUE, success |-> TRUE]

\* glob found nothing (lines 189-191)
ExNoZips ==
    /\ ex.pc = "glob"
    /\ ex.zips = <<>>
    /\ ex' = [ex EXCEPT !.pc = "done", !.ret = 0]
    /\ UNCHANGED <<sequential, par, sync>>

\* lines 193-197
ExStartLoop ==
    /\ ex.pc = "glob"
    /\ ex.zips # <<>>
    /\ ex' = [ex EXCEPT !.pc = "loop", !.idx = 1, !.success_count = 0,
                        !.failed_files = <<>>]
    /\ UNCHANGED <<sequential, par, sync>>

\* one iteration whose extract_wavs value unpacks (lines 199-208)
ExIteration ==
    /\ ex.pc = "loop"
    /\ ex.idx <= Len(ex.zips)
    /\ extract_wavs(ex.zips[ex.idx]).pair
    /\ IF extract_wavs(ex.zips[ex.idx]).success
         THEN ex' = [ex EXCEPT !.success_count = @ + 1, !.idx = @ + 1]
         ELSE ex' = [ex EXCEPT !.failed_files = Append(@, ex.idx), !.idx = @ + 1]
    /\ UNCHANGED <<sequential, par, sync>>

\* `success, error_msg = False` raises TypeError at line 201; nothing in
\* main catches it and the process ends with a traceback
ExUnpackRaises ==
    /\ ex.pc = "loop"
    /\ ex.idx <= Len(ex.zips)
    /\ ~extract_wavs(ex.zips[ex.idx]).pair
    /\ ex' = [ex EXCEPT !.pc = "crashed"]
    /\ UNCHANGED <<sequential, par, sync>>

\* the loop is over (lines 210-236)
ExSummary ==
    /\ ex.pc = "loop"
    /\ ex.idx > Len(ex.zips)
    /\ ex' = [ex EXCEPT !.pc = "done",
                        !.ret = IF ex.success_count = Len(ex.zips) THEN 0 ELSE 1]
    /\ UNCHANGED <<sequential, par, sync>>

InitExtract ==
    /\ Start(<<>>, {})
    /\ max_retries = DefaultMaxRetries
    /\ pc = "off"
    /\ par = NoPar
    /\ sync = NoSync
    /\ \E zips \in UNION {[1..n -> ZipKinds] : n \in 0..MaxZips} :
          ex = [NoEx EXCEPT !.zips = zips, !.pc = "glob"]

NextExtract ==
    \/ ExNoZips
    \/ ExStartLoop
    \/ ExIteration
    \/ ExUnpackRaises
    \/ ExSummary

SpecExtract == InitExtract /\ [][NextExtract]_vars

----------------------------------------------------------------------------
(* multiplayer_sync: one run of the script over work_folder and copy_folder *)

ADDED == "added"
MODIFIED == "modified"
DELETED == "deleted"

\* the action populate_dict stores for a line of git status: the text before
\* the colon, or ADDED for a line without one (an untracked file).  A staged
\* new file is stored under git's own label
GitActions == {ADDED, MODIFIED, DELETED, "new file"}

\* the relative paths git status may list
SyncKeys == {"x", "y"}

NoSyncFile == [mtime |-> 0, size |-> 0]
\* the file as checked out at the common revision
CommittedFile == [mtime |-> 1, size |-> 1]
SyncFiles == [mtime : 1..MaxMtime, size : 1..MaxSize]

\* the time of the run, later than every file
Now == MaxMtime + 1

\* the result of populate_dict over a folder agrees with the folder: a
\* deleted file is absent, a listed file of any other action exists
Populated(dict, folder) ==
    \A key \in SyncKeys :
        IF key \in DOMAIN dict
        THEN dict[key] = DELETED <=> folder[key] = NoSyncFile
        ELSE folder[key] \in {NoSyncFile, CommittedFile}

compare_dates(action_a, action_b, file_a, file_b) ==
    IF action_a = action_b
    THEN ~(action_a \in {MODIFIED, ADDED} /\ file_a.mtime < file_b.mtime)
    ELSE ~(action_a = DELETED /\ action_b = MODIFIED)

\* the WARNING of lines 69-74 is printed
SizeWarning(action_a, action_b, file_a, file_b) ==
    /\ action_a = action_b
    /\ action_a \in {MODIFIED, ADDED}
    /\ file_a.mtime < file_b.mtime
    /\ file_a.size # file_b.size

\* the condition of line 95
GoodToGo(key) ==
    IF key \notin DOMAIN sync.dict_b
    THEN TRUE
    ELSE compare_dates(sync.dict_a[key], sync.dict_b[key],
                       sync.work[key], sync.copy[key])

\* the user does not answer "y" (lines 25-35)
SyncAbort ==
    /\ sync.pc = "confirm"
    /\ sync' = [sync EXCEPT !.pc = "done", !.exit_code = 0, !.todo = {}]
    /\ UNCHANGED <<sequential, par, ex>>

\* the user answers "y", or "f" was given (lines 21-35, 85-87)
SyncConfirm ==
    /\ sync.pc = "confirm"
    /\ sync' = [sync EXCEPT !.pc = "loop"]
    /\ UNCHANGED <<sequential, par, ex>>

\* compare_dates returned False: the key is left alone (line 95)
SyncSkip(key) ==
    /\ sync.pc = "loop"
    /\ key \in sync.todo
    /\ ~GoodToGo(key)
    /\ sync' = [sync EXCEPT
                  !.todo = @ \ {key},
                  !.warned = IF SizeWarning(sync.dict_a[key], sync.dict_b[key],
                                            sync.work[key], sync.copy[key])
                             THEN @ \cup {key} ELSE @]
    /\ UNCHANGED <<sequential, par, ex>>

\* os.remove(path_b), an OSError for a missing file is passed (lines 96-100)
SyncRemove(key) ==
    /\ sync.pc = "loop"
    /\ key \in sync.todo
    /\ GoodToGo(key)
    /\ sync.dict_a[key] = DELETED
    /\ sync' = [sync EXCEPT !.todo = @ \ {key},
                            !.copy[key] = NoSyncFile]
    /\ UNCHANGED <<sequential, par, ex>>

\* shutil.copyfile(path_a, path_b) (lines 101-103)
SyncCopy(key) ==
    /\ sync.pc = "loop"
    /\ key \in sync.todo
    /\ GoodToGo(key)
    /\ sync.dict_a[key] # DELETED
    /\ sync' = [sync EXCEPT
                  !.todo = @ \ {key},
                  !.files_copied = Append(@, key),
                  !.copy[key] = [mtime |-> Now, size |-> sync.work[key].size]]
    /\ UNCHANGED <<sequential, par, ex>>

\* the loop is over (lines 105-114)
SyncDone ==
    /\ sync.pc = "loop"
    /\ sync.todo = {}
    /\ sync' = [sync EXCEPT !.pc = "done", !.exit_code = 0]
    /\ UNCHANGED <<sequential, par, ex>>

InitSync ==
    /\ Start(<<>>, {})
    /\ max_retries = DefaultMaxRetries
    /\ pc = "off"
    /\ par = NoPar
    /\ ex = NoEx
    /\ \E dict_a, dict_b \in UNION {[D -> GitActions] : D \in SUBSET SyncKeys},
          work, copy \in [SyncKeys -> SyncFiles \cup {NoSyncFile}] :
          /\ Populated(dict_a, work)
          /\ Populated(dict_b, copy)
          /\ sync = [NoSync EXCEPT !.pc = "confirm", !.dict_a = dict_a,
                                   !.dict_b = dict_b, !.work = work,
                                   !.copy = copy, !.todo = DOMAIN dict_a]

NextSync ==
    \/ SyncAbort
    \/ SyncConfirm
    \/ \E key \in SyncKeys : SyncSkip(key)
    \/ \E key \in SyncKeys : SyncRemove(key)
    \/ \E key \in SyncKeys : SyncCopy(key)
    \/ SyncDone

SpecSync == InitSync /\ [][NextSync]_vars

\* download_file called on its own, for one task whose destination may
\* exist, with any max_retries up to MaxRetriesArg
InitDirect ==
    /\ \E n \in Names, existing \in SUBSET Names :
          /\ existing \subseteq {n}
          /\ Start(<<n>>, existing)
    /\ max_retries \in 0..MaxRetriesArg
    /\ par = NoPar
    /\ ex = NoEx
    /\ sync = NoSync
    /\ pc = "for_attempt"

SpecDirect == InitDirect /\ [][DownloadFile]_vars

----------------------------------------------------------------------------
(* Properties *)

TaskIds == 1..Len(downloads)

RunOver == pc \in {"returned", "exited"}

\* place of an existing path in the modification order
Position(p) == CHOOSE n \in 1..Len(mtimeOrder) : mtimeOrder[n] = p

\* C1: in every state of a batch run the destination path of every task is
\* absent or holds a complete response body of that task (or the complete
\* file an earlier run left).
C1_DestinationNeverTruncated ==
    \A k \in TaskIds :
        \/ ~Exists(downloads[k])
        \/ Complete(fs[downloads[k]]) /\ fs[downloads[k]].src \in {0, k}

\* C2: once an attempt of download_file has failed, the destination holds
\* what it held when the attempt started and no file is at the staging path.
C2_FailedAttemptLeavesNoTrace ==
    (pc \in {"for_attempt", "exited"} /\ attempt > 0) =>
        /\ fs[Dest] = destBefore
        /\ ~Exists(TempPath(Dest))

\* C3: when task i has exhausted its retries, no later task was attempted
\* (no request, no staging file), the destination of every earlier task that
\* did not fail exists, and the destinations of task i and of the later
\* tasks that did not exist before the run do not exist.
C3_HaltOnFirstFailure ==
    pc = "exited" =>
        /\ \A k \in TaskIds : k > i => requests[k] = 0 /\ ~staged[k]
        /\ \A k \in TaskIds :
              (k < i /\ outcome[k] \in {"skipped", "succeeded"})
                  => Exists(downloads[k])
        /\ \A k \in TaskIds :
              (k >= i /\ downloads[k] \notin existedBefore)
                  => ~Exists(downloads[k])

\* C4: after a run, the destination files that exist are ordered by
\* modification time as their tasks are ordered in the input list.
C4_ModificationOrderIsListOrder ==
    RunOver =>
        \A j, k \in TaskIds :
            (j < k /\ Exists(downloads[j]) /\ Exists(downloads[k]))
                => Position(downloads[j]) < Position(downloads[k])

\* C5: a task whose destination exists when the loop reaches it is resolved
\* as skipped in that step, with no request, no staging file and the
\* filesystem unchanged, and a skipped task never has a request or a staging
\* file.
C5_ExistingDestinationIsSkipped ==
    /\ [](\A k \in TaskIds :
             outcome[k] = "skipped" => requests[k] = 0 /\ ~staged[k])
    /\ [][(pc = "loop" /\ i <= Len(downloads) /\ Exists(Dest)) =>
             /\ outcome'[i] = "skipped"
             /\ requests' = requests
             /\ staged' = staged
             /\ fs' = fs
             /\ mtimeOrder' = mtimeOrder]_vars

C5_Witness ==
    \E k \in TaskIds :
        /\ k > 1
        /\ outcome[k] = "skipped"
        /\ outcome[1] = "succeeded"

\* C6: a call of download_file issues at most max_retries + 1 requests,
\* exactly max_retries + 1 when it ends with every attempt failed, whatever
\* the kinds of the failures; once an attempt has committed the destination
\* the call has returned True and that attempt was the last.
C6_AttemptBudget ==
    /\ requests[i] <= max_retries + 1
    /\ pc = "exited" => requests[i] = max_retries + 1 /\ fs[Dest].src # i
    /\ fs[Dest].src = i => pc = "ret_true" /\ requests[i] = attempt + 1

C6_Witness ==
    /\ pc = "exited"
    /\ max_retries = 2
    /\ requests[i] = 3
    /\ kinds = {"network", "http", "filesystem"}

C9_LengthIsContentLength ==
    pc = "ret_true" =>
        /\ response.content_length # -1
              => fs[Dest].len = response.content_length
        /\ ~Exists(TempPath(Dest))

\* C10: in the second run of the same batch, every task that succeeded in
\* the first run gets no request and is resolved as skipped.
C10_SecondRunSkips ==
    run = 2 =>
        \A k \in TaskIds :
            firstOutcome[k] = "succeeded" =>
                /\ requests[k] = 0
                /\ RunOver => outcome[k] = "skipped"

\* the tasks with one of the given outcomes
Resolved(kindsOfOutcome) == {k \in TaskIds : outcome[k] \in kindsOfOutcome}

\* C14: when download_all_files has printed its summary, every task has one
\* outcome, the successful count is the number of skipped and succeeded
\* tasks, the failed list holds the failed ones, and successful count plus
\* failed count is the number of tasks.
C14_CountsAddUp ==
    report # NoReport =>
        /\ \A k \in TaskIds : outcome[k] \in {"skipped", "succeeded", "failed"}
        /\ report.successful = Cardinality(Resolved({"skipped", "succeeded"}))
        /\ Len(report.failed) = Cardinality(Resolved({"failed"}))
        /\ report.total = Len(downloads)
        /\ report.successful + Len(report.failed) = report.total

C14_Witness ==
    /\ report # NoReport
    /\ Resolved({"skipped"}) # {}
    /\ Resolved({"succeeded"}) # {}

\* C15: every batch run that has ended has produced its summary report,
\* also the run that halted on a task that exhausted its retries.
C15_SummaryAlwaysProduced ==
    RunOver => report # NoReport

\* C19: once a task is resolved as succeeded or skipped, no step of the run
\* changes the file at its destination.
C19_ResolvedDestinationUntouched ==
    [][\A k \in TaskIds :
          outcome[k] \in {"succeeded", "skipped"}
              => fs'[downloads[k]] = fs[downloads[k]]]_vars

\* the process of main has ended
ProcessOver == RunOver \/ pc = "interrupted"

\* C11: when the process has ended, its exit status is zero exactly when
\* every task of the batch is resolved as skipped or succeeded.
C11_ExitSignal ==
    ProcessOver =>
        (exit_code = 0 <=> Resolved({"skipped", "succeeded"}) = TaskIds)

\* C12: after an interrupt the staging file of the attempt in flight is gone
\* and the exit status is not zero.
C12_InterruptCleansUp ==
    pc = "interrupted" =>
        /\ exit_code # 0
        /\ ~(Exists(TempPath(Dest)) /\ fs[TempPath(Dest)].src = i)

\* C13: a run in which a task exhausted its retries ends with a non-zero
\* exit status and no exception surfaced, also when the log write failed.
C13_LogFailureDoesNotMask ==
    (ProcessOver /\ Resolved({"failed"}) # {}) =>
        /\ exit_code # 0
        /\ caught = "none"

\* C18: no attempt fails with the progress reporter's exception.
C18_ProgressFailureDoesNotAbort ==
    "progress" \notin kinds

C17_EveryTaskReachesOutcome ==
    ~ParRunning =>
        \A k \in ParTasks : par.outcome[k] \in {"skipped", "succeeded", "failed"}

\* C20: when extract_bundle.main has ended, every ZIP file found was counted
\* once, as a success or in failed_files, and main returned 0 exactly when
\* all of them succeeded.
C20_EveryZipCountedOnce ==
    ex.pc \in {"done", "crashed"} =>
        /\ ex.success_count + Len(ex.failed_files) = Len(ex.zips)
        /\ ex.ret = 0 <=> ex.success_count = Len(ex.zips)

\* C21: for a file listed as added, modified or deleted in both folders, no
\* step overwrites or deletes the file of copy_folder while it is newer than
\* the file of work_folder.
C21_NewerCopyIsKept ==
    [][\A key \in DOMAIN sync.dict_a \cap DOMAIN sync.dict_b :
          (/\ sync.dict_a[key] \in {ADDED, MODIFIED, DELETED}
           /\ sync.dict_b[key] \in {ADDED, MODIFIED, DELETED}
           /\ sync.work[key] # NoSyncFile
           /\ sync.copy[key] # NoSyncFile
           /\ sync.copy[key].mtime > sync.work[key].mtime)
              => sync'.copy[key] = sync.copy[key]]_vars

====
